---------------------------- MODULE Spec2Model ----------------------------
(***************************************************************************)
(* A model of basic_log.h: the Logging record created by LOG(level), the   *)
(* process-wide threshold, the append operators and the destructor that    *)
(* writes the record to std::cerr.                                         *)
(*                                                                         *)
(* Text is modelled as TLA+ strings built with \o, exactly as the code     *)
(* builds the ostringstream.  std::cerr is the sequence of the insertions  *)
(* made into it, each tagged with the record that made it.                 *)
(***************************************************************************)
EXTENDS Integers, Sequences, FiniteSets, TLC

VARIABLES
  current_level,  \* Logging::current_level (std::atomic<LogLevel>)
  cerr,           \* std::cerr: the insertions made so far, in order
  pc,             \* per thread: where it is in its log statement
  rec,            \* per thread: the Logging temporary of its statement
  id,             \* per thread: index in hist of its statement (0: none)
  hist,           \* history: one entry per evaluated LOG(level)
  lastCall,       \* history: per thread, the last append and the record before it
  configLog,      \* history: the BasicConfig calls made so far
  unwinding,      \* per thread: an exception is unwinding its statement
  cxx20,          \* the build: TRUE when compiled as C++20, FALSE as C++17
  limit           \* the number of appends a statement of this run may hold

vars == <<current_level, cerr, pc, rec, id, hist, lastCall, configLog,
          unwinding, cxx20, limit>>

-----------------------------------------------------------------------------
(* Bounds of the model *)

MaxStatements == 1
MaxAppends == 2
MaxPlain == 3
MaxValues == 2

(* enum LogLevel { DEBUG, INFO, WARN, ERROR, FATAL } *)
DEBUG == 0
INFO == 1
WARN == 2
ERROR == 3
FATAL == 4

LogLevel == {DEBUG, INFO, WARN, ERROR, FATAL}

Threads == {"t1", "t2"}
MainThread == "t1"

(* Inputs *)
Texts == {"x"}
Ints == {11, -5}
Bools == {TRUE, FALSE}
Files == {"main.cpp"}
Lines == {10}
Times == {"2024-05-01 12:00:00"}
Vectors == {<<>>, <<7>>, <<3, 1, 2>>}
IntSets == {{}, {2, 1}}
Maps == {<<>>, << <<"key1", 1>>, <<"key2", 2>> >>}
UnorderedMaps == {{<<"key1", 1>>, <<"key2", 2>>}}
Optionals == {[has |-> FALSE, k |-> "int", v |-> 0],
              [has |-> TRUE, k |-> "int", v |-> 42],
              [has |-> TRUE, k |-> "text", v |-> "hi"]}
Units == {"s", "ms", "us", "ns", "h", "min"}
Counts == {1000}

-----------------------------------------------------------------------------
(* Rendering done by the standard stream inserters *)

Digit(d) ==
  CASE d = 0 -> "0" [] d = 1 -> "1" [] d = 2 -> "2" [] d = 3 -> "3"
    [] d = 4 -> "4" [] d = 5 -> "5" [] d = 6 -> "6" [] d = 7 -> "7"
    [] d = 8 -> "8" [] d = 9 -> "9"

RECURSIVE NatToString(_)
NatToString(n) ==
  IF n < 10 THEN Digit(n) ELSE NatToString(n \div 10) \o Digit(n % 10)

(* std::ostream << int *)
IntToString(n) == IF n < 0 THEN "-" \o NatToString(-n) ELSE NatToString(n)

(* std::ostream << bool, boolalpha not set *)
StreamBool(b) == IF b THEN "1" ELSE "0"

(* #level in the LOG macro *)
LevelStr(l) ==
  CASE l = DEBUG -> "DEBUG" [] l = INFO -> "INFO" [] l = WARN -> "WARN"
    [] l = ERROR -> "ERROR" [] l = FATAL -> "FATAL"

(* C++20 std::ostream << std::chrono::duration: the count and the unit suffix *)
StreamDuration(unit, count) == IntToString(count) \o unit

(* The unit word of each duration overload *)
UnitWord(unit) ==
  CASE unit = "s" -> "seconds" [] unit = "ms" -> "milliseconds"
    [] unit = "us" -> "microseconds" [] unit = "ns" -> "nanoseconds"
    [] unit = "h" -> "hours" [] unit = "min" -> "minutes"

-----------------------------------------------------------------------------
(* The Logging object: has_oss/oss are std::optional<std::ostringstream>  *)

(* Logging() = default *)
LoggingDefault == [has_oss |-> FALSE, oss |-> "", no_space |-> FALSE]

(* Logging(level_str, file, line); time is the formatted local time *)
LoggingHeader(level_str, time, file, line) ==
  [has_oss |-> TRUE,
   oss |-> "[" \o level_str \o "]" \o "[" \o time \o "]"
           \o "[" \o file \o ":" \o IntToString(line) \o "]:",
   no_space |-> FALSE]

(* static void NoSpace(Logging& log) *)
NoSpace(r) == [r EXCEPT !.no_space = TRUE]

(* A plausible slip: the flag is not reset by the append that consumes it *)
OperatorShlStickyFlag(r, s) ==
  IF r.has_oss
    THEN IF r.no_space
           THEN [r EXCEPT !.oss = r.oss \o s]
           ELSE [r EXCEPT !.oss = r.oss \o " " \o s]
    ELSE r

(* template <typename T> Logging& operator<<(const T& value); s is what   *)
(* *oss << value inserts                                                   *)
OperatorShl(r, s) ==
  IF r.has_oss
    THEN IF r.no_space
           THEN [r EXCEPT !.no_space = FALSE, !.oss = r.oss \o s]
           ELSE [r EXCEPT !.oss = r.oss \o " " \o s]
    ELSE r

(* The loop of LogSequence over elements i..Len(elems) *)
RECURSIVE SequenceLoop(_, _, _)
SequenceLoop(r, elems, i) ==
  IF i > Len(elems) THEN r
  ELSE LET r1 == OperatorShl(r, IntToString(elems[i]))
           r2 == IF i + 1 <= Len(elems) THEN OperatorShl(r1, ",") ELSE r1
       IN SequenceLoop(r2, elems, i + 1)

(* A plausible slip: the separator before the opening brace is kept *)
LogSequenceNoManip(r, name, elems) ==
  OperatorShl(SequenceLoop(OperatorShl(OperatorShl(r, name), "{"), elems, 1), "}")

(* Logging& LogSequence(name, begin, end) *)
LogSequence(r, name, elems) ==
  LET open == OperatorShl(NoSpace(OperatorShl(r, name)), "{")
  IN OperatorShl(SequenceLoop(open, elems, 1), "}")

(* The loop of LogMapping over entries i..Len(entries) *)
RECURSIVE MappingLoop(_, _, _)
MappingLoop(r, entries, i) ==
  IF i > Len(entries) THEN r
  ELSE LET r1 == OperatorShl(OperatorShl(OperatorShl(r, entries[i][1]), ":"),
                             IntToString(entries[i][2]))
           r2 == IF i + 1 <= Len(entries) THEN OperatorShl(r1, ",") ELSE r1
       IN MappingLoop(r2, entries, i + 1)

(* Logging& LogMapping(name, begin, end) *)
LogMapping(r, name, entries) ==
  LET open == OperatorShl(NoSpace(OperatorShl(r, name)), "{")
  IN OperatorShl(MappingLoop(open, entries, 1), "}")

(* Logging& operator<<(Logging& log, bool value) *)
ShlBoolOverload(r, b) == OperatorShl(r, IF b THEN "true" ELSE "false")

(* A plausible slip: the empty optional written without the inner spaces *)
ShlOptionalTight(r, o) ==
  IF o.has
    THEN OperatorShl(OperatorShl(OperatorShl(r, "std::optional{"),
                       IF o.k = "int" THEN IntToString(o.v) ELSE o.v), "}")
    ELSE OperatorShl(r, "std::optional{nullopt}")

(* Logging& operator<<(Logging& log, const std::optional<T>& value) *)
ShlOptionalOverload(r, o) ==
  IF o.has
    THEN OperatorShl(OperatorShl(OperatorShl(r, "std::optional{"),
                       IF o.k = "int" THEN IntToString(o.v) ELSE o.v), "}")
    ELSE OperatorShl(r, "std::optional{ nullopt }")

(* A plausible slip: every overload prints the same unit word *)
ShlDurationOneWord(r, unit, count) ==
  OperatorShl(OperatorShl(r, IntToString(count)), "seconds")

(* Logging& operator<<(Logging& log, std::chrono::<unit> value) *)
ShlDurationOverload(r, unit, count) ==
  OperatorShl(OperatorShl(r, IntToString(count)), UnitWord(unit))

(* Iteration order of std::set<int>: ascending *)
RECURSIVE SetIteration(_)
SetIteration(S) ==
  IF S = {} THEN <<>>
  ELSE LET m == CHOOSE x \in S : \A y \in S : x <= y
       IN <<m>> \o SetIteration(S \ {m})

(* The iteration orders a std::unordered_map may have: any order *)
Orders(S) ==
  {f \in [1..Cardinality(S) -> S] : \A i, j \in 1..Cardinality(S) : i /= j => f[i] /= f[j]}

-----------------------------------------------------------------------------
(* The threshold *)

(* static LogLevel GetCurrentLevel() *)
GetCurrentLevel == current_level

(* A plausible slip: the threshold can only be raised *)
BasicConfigRaiseOnly(level) ==
  /\ current_level' = IF level > current_level THEN level ELSE current_level
  /\ configLog' = [set |-> TRUE, level |-> level,
                   repeat |-> configLog.set /\ configLog.level = level]
  /\ UNCHANGED <<cerr, pc, rec, id, hist, lastCall, unwinding, cxx20, limit>>

(* static void BasicConfig(LogLevel level) *)
BasicConfig(level) ==
  /\ current_level' = level
  /\ configLog' = [set |-> TRUE, level |-> level,
                   repeat |-> configLog.set /\ configLog.level = level]
  /\ UNCHANGED <<cerr, pc, rec, id, hist, lastCall, unwinding, cxx20, limit>>

-----------------------------------------------------------------------------
(* LOG(level): the condition, then the construction of the chosen operand *)

(* A plausible slip: <= in place of < *)
LogConditionOffByOne(S, T) == S <= T

(* Logging::level < Logging::GetCurrentLevel() *)
LogCondition(S, T) == S < T

NoCall == [k |-> "none", v |-> "", before |-> LoggingDefault, first |-> FALSE]

LogCheck(t, S) ==
  /\ pc[t] = "idle"
  /\ Len(hist) < MaxStatements
  /\ pc' = [pc EXCEPT ![t] =
              IF LogCondition(S, GetCurrentLevel) THEN "ctor_default" ELSE "ctor_header"]
  /\ hist' = Append(hist, [thread |-> t, sev |-> S, thr |-> GetCurrentLevel,
                           active |-> ~LogCondition(S, GetCurrentLevel),
                           header |-> "", calls |-> <<>>, stage |-> "checked"])
  /\ id' = [id EXCEPT ![t] = Len(hist) + 1]
  /\ UNCHANGED <<current_level, cerr, rec, lastCall, configLog, unwinding, cxx20, limit>>

(* A plausible slip: the operand is chosen by reading the threshold again *)
LogConstructReread(t) ==
  /\ pc[t] \in {"ctor_default", "ctor_header"}
  /\ \E time \in Times, file \in Files, line \in Lines :
       LET r == IF hist[id[t]].sev < current_level
                  THEN LoggingDefault
                  ELSE LoggingHeader(LevelStr(hist[id[t]].sev), time, file, line)
       IN /\ rec' = [rec EXCEPT ![t] = r]
          /\ hist' = [hist EXCEPT ![id[t]].header = r.oss, ![id[t]].stage = "live"]
  /\ pc' = [pc EXCEPT ![t] = "prvalue"]
  /\ UNCHANGED <<current_level, cerr, id, lastCall, configLog, unwinding, cxx20, limit>>

LogConstruct(t) ==
  /\ pc[t] \in {"ctor_default", "ctor_header"}
  /\ \E time \in Times, file \in Files, line \in Lines :
       LET r == IF pc[t] = "ctor_default"
                  THEN LoggingDefault
                  ELSE LoggingHeader(LevelStr(hist[id[t]].sev), time, file, line)
       IN /\ rec' = [rec EXCEPT ![t] = r]
          /\ hist' = [hist EXCEPT ![id[t]].header = r.oss, ![id[t]].stage = "live"]
  /\ pc' = [pc EXCEPT ![t] = "prvalue"]
  /\ UNCHANGED <<current_level, cerr, id, lastCall, configLog, unwinding, cxx20, limit>>

-----------------------------------------------------------------------------
(* The appends of a statement.  LOG(level) is a prvalue: only the member  *)
(* operators apply to it; each append returns Logging&, to which the      *)
(* non-member overloads apply as well.                                    *)

InChain(t) == pc[t] \in {"prvalue", "lvalue"} /\ Len(hist[id[t]].calls) < limit

(* The state after an append that turns rec[t] into r *)
Appended(t, kind, value, r) ==
  /\ rec' = [rec EXCEPT ![t] = r]
  /\ hist' = [hist EXCEPT ![id[t]].calls = Append(@, [k |-> kind, v |-> value])]
  /\ lastCall' = [lastCall EXCEPT ![t] =
                    [k |-> kind, v |-> value, before |-> rec[t],
                     first |-> pc[t] = "prvalue"]]
  /\ pc' = [pc EXCEPT ![t] = "lvalue"]
  /\ UNCHANGED <<current_level, cerr, id, configLog, unwinding, cxx20, limit>>

(* << "text": the member template *)
ShlText(t, s) ==
  /\ InChain(t)
  /\ Appended(t, "text", s, OperatorShl(rec[t], s))

(* << 11: the member template *)
ShlInt(t, n) ==
  /\ InChain(t)
  /\ Appended(t, "int", n, OperatorShl(rec[t], IntToString(n)))

(* << Logging::NoSpace: the member operator<< taking a manipulator *)
ShlManip(t) ==
  /\ InChain(t)
  /\ Appended(t, "nospace", "", NoSpace(rec[t]))

(* << bool: on Logging& the non-member overload; on the prvalue the       *)
(* overload's Logging& cannot bind, and the member template inserts the   *)
(* bool into the stream                                                   *)
ShlBool(t, b) ==
  /\ InChain(t)
  /\ Appended(t, "bool", b,
              IF pc[t] = "lvalue" THEN ShlBoolOverload(rec[t], b)
                                  ELSE OperatorShl(rec[t], StreamBool(b)))

(* << std::vector<int>: compiles on Logging& only *)
ShlVector(t, v) ==
  /\ InChain(t)
  /\ pc[t] = "lvalue"
  /\ Appended(t, "vector", v, LogSequence(rec[t], "std::vector", v))

(* << std::set<int>: compiles on Logging& only *)
ShlSet(t, S) ==
  /\ InChain(t)
  /\ pc[t] = "lvalue"
  /\ Appended(t, "set", SetIteration(S), LogSequence(rec[t], "std::set", SetIteration(S)))

(* << std::map<std::string, int>: compiles on Logging& only *)
ShlMap(t, m) ==
  /\ InChain(t)
  /\ pc[t] = "lvalue"
  /\ Appended(t, "map", m, LogMapping(rec[t], "std::map", m))

(* << std::unordered_map<std::string, int>: compiles on Logging& only *)
ShlUnorderedMap(t, m) ==
  /\ InChain(t)
  /\ pc[t] = "lvalue"
  /\ \E order \in Orders(m) :
       Appended(t, "unordered_map", order,
                LogMapping(rec[t], "std::unordered_map", order))

(* << std::optional<T>: compiles on Logging& only *)
ShlOptional(t, o) ==
  /\ InChain(t)
  /\ pc[t] = "lvalue"
  /\ Appended(t, "optional", o, ShlOptionalOverload(rec[t], o))

(* << std::chrono duration: on Logging& the non-member overload; on the   *)
(* prvalue the member template, which compiles in C++20 only              *)
ShlDuration(t, unit, count) ==
  /\ InChain(t)
  /\ pc[t] = "prvalue" => cxx20
  /\ Appended(t, "duration", <<unit, count>>,
              IF pc[t] = "lvalue" THEN ShlDurationOverload(rec[t], unit, count)
                                  ELSE OperatorShl(rec[t], StreamDuration(unit, count)))

-----------------------------------------------------------------------------
(* The end of the statement: ~Logging() *)

CerrInsert(i, kind, data) == Append(cerr, [id |-> i, kind |-> kind, data |-> data])

(* ~Logging(): if (!oss) return; std::cerr << oss->str() ... *)
Destroy(t) ==
  IF ~rec[t].has_oss
    THEN /\ pc' = [pc EXCEPT ![t] = "idle"]
         /\ rec' = [rec EXCEPT ![t] = LoggingDefault]
         /\ id' = [id EXCEPT ![t] = 0]
         /\ lastCall' = [lastCall EXCEPT ![t] = NoCall]
         /\ hist' = [hist EXCEPT ![id[t]].stage = "done"]
         /\ unwinding' = [unwinding EXCEPT ![t] = FALSE]
         /\ UNCHANGED cerr
    ELSE /\ cerr' = CerrInsert(id[t], "str", rec[t].oss)
         /\ pc' = [pc EXCEPT ![t] = "endl"]
         /\ hist' = [hist EXCEPT ![id[t]].stage = "flushing"]
         /\ UNCHANGED <<rec, id, lastCall>>

(* The full expression ends: the temporary is destroyed *)
EndStatement(t) ==
  /\ pc[t] \in {"prvalue", "lvalue"}
  /\ Destroy(t)
  /\ IF rec[t].has_oss THEN UNCHANGED unwinding ELSE TRUE
  /\ UNCHANGED <<current_level, configLog, cxx20, limit>>

(* A plausible slip: the line is written by the normal end only *)
ThrowNoFlush(t) ==
  /\ pc[t] \in {"prvalue", "lvalue"}
  /\ pc' = [pc EXCEPT ![t] = "idle"]
  /\ rec' = [rec EXCEPT ![t] = LoggingDefault]
  /\ id' = [id EXCEPT ![t] = 0]
  /\ lastCall' = [lastCall EXCEPT ![t] = NoCall]
  /\ hist' = [hist EXCEPT ![id[t]].stage = "done"]
  /\ UNCHANGED <<current_level, cerr, configLog, unwinding, cxx20, limit>>

(* An operand of the statement throws: the temporary is destroyed by the  *)
(* unwinding                                                               *)
Throw(t) ==
  /\ pc[t] \in {"prvalue", "lvalue"}
  /\ Destroy(t)
  /\ IF rec[t].has_oss THEN unwinding' = [unwinding EXCEPT ![t] = TRUE] ELSE TRUE
  /\ UNCHANGED <<current_level, configLog, cxx20, limit>>

(* ... << std::endl; and the destructor returns *)
DtorEndl(t) ==
  /\ pc[t] = "endl"
  /\ cerr' = CerrInsert(id[t], "endl", "\n")
  /\ pc' = [pc EXCEPT ![t] = "idle"]
  /\ rec' = [rec EXCEPT ![t] = LoggingDefault]
  /\ id' = [id EXCEPT ![t] = 0]
  /\ lastCall' = [lastCall EXCEPT ![t] = NoCall]
  /\ hist' = [hist EXCEPT ![id[t]].stage = "done"]
  /\ unwinding' = [unwinding EXCEPT ![t] = FALSE]
  /\ UNCHANGED <<current_level, configLog, cxx20, limit>>

-----
(* Specifications *)

(* The program after static initialisation: current_level{DEBUG} *)
Start ==
  /\ current_level = DEBUG
  /\ cerr = <<>>
  /\ pc = [t \in Threads |-> "idle"]
  /\ rec = [t \in Threads |-> LoggingDefault]
  /\ id = [t \in Threads |-> 0]
  /\ hist = <<>>
  /\ lastCall = [t \in Threads |-> NoCall]
  /\ configLog = [set |-> FALSE, level |-> DEBUG, repeat |-> FALSE]
  /\ unwinding = [t \in Threads |-> FALSE]
  /\ cxx20 \in BOOLEAN

Init ==
  /\ Start
  /\ limit = MaxAppends

(* One thread logs text while the threshold is reconfigured at any moment *)
Next ==
  \/ \E level \in LogLevel : BasicConfig(level)
  \/ \E S \in LogLevel : LogCheck(MainThread, S)
  \/ LogConstruct(MainThread)
  \/ \E s \in Texts : ShlText(MainThread, s)
  \/ EndStatement(MainThread)
  \/ Throw(MainThread)
  \/ DtorEndl(MainThread)

Spec == Init /\ [][Next]_vars

(* The history entry of a record constructed by LOG(S) under threshold DEBUG *)
Constructed(t, S, r) ==
  [thread |-> t, sev |-> S, thr |-> DEBUG, active |-> TRUE,
   header |-> r.oss, calls |-> <<>>, stage |-> "live"]

(* The main thread has evaluated LOG(S) at the default threshold *)
InitOneRecord ==
  /\ current_level = DEBUG
  /\ cerr = <<>>
  /\ \E S \in LogLevel, time \in Times, file \in Files, line \in Lines :
       LET r == LoggingHeader(LevelStr(S), time, file, line)
       IN /\ rec = [t \in Threads |-> IF t = MainThread THEN r ELSE LoggingDefault]
          /\ hist = <<Constructed(MainThread, S, r)>>
  /\ pc = [t \in Threads |-> IF t = MainThread THEN "prvalue" ELSE "idle"]
  /\ id = [t \in Threads |-> IF t = MainThread THEN 1 ELSE 0]
  /\ lastCall = [t \in Threads |-> NoCall]
  /\ configLog = [set |-> FALSE, level |-> DEBUG, repeat |-> FALSE]
  /\ unwinding = [t \in Threads |-> FALSE]
  /\ cxx20 \in BOOLEAN

InitPlain ==
  /\ InitOneRecord
  /\ limit = MaxPlain

(* One statement of plain values, booleans and NoSpace requests *)
NextPlain ==
  \/ \E s \in Texts : ShlText(MainThread, s)
  \/ \E n \in Ints : ShlInt(MainThread, n)
  \/ \E b \in Bools : ShlBool(MainThread, b)
  \/ ShlManip(MainThread)
  \/ EndStatement(MainThread)
  \/ DtorEndl(MainThread)

SpecPlain == InitPlain /\ [][NextPlain]_vars

InitFmt ==
  /\ InitOneRecord
  /\ limit = MaxValues

(* One statement of containers, optionals and durations *)
NextFmt ==
  \/ \E s \in Texts : ShlText(MainThread, s)
  \/ ShlManip(MainThread)
  \/ \E v \in Vectors : ShlVector(MainThread, v)
  \/ \E S \in IntSets : ShlSet(MainThread, S)
  \/ \E m \in Maps : ShlMap(MainThread, m)
  \/ \E m \in UnorderedMaps : ShlUnorderedMap(MainThread, m)
  \/ \E o \in Optionals : ShlOptional(MainThread, o)
  \/ \E unit \in Units, count \in Counts : ShlDuration(MainThread, unit, count)
  \/ EndStatement(MainThread)
  \/ DtorEndl(MainThread)

SpecFmt == InitFmt /\ [][NextFmt]_vars

(* Every thread has evaluated LOG(S) at the default threshold *)
InitMT ==
  /\ current_level = DEBUG
  /\ cerr = <<>>
  /\ \E S \in [Threads -> LogLevel], time \in Times, file \in Files, line \in Lines :
       LET r(t) == LoggingHeader(LevelStr(S[t]), time, file, line)
       IN /\ rec = [t \in Threads |-> r(t)]
          /\ hist = <<Constructed("t1", S["t1"], r("t1")), Constructed("t2", S["t2"], r("t2"))>>
  /\ pc = [t \in Threads |-> "prvalue"]
  /\ id = [t \in Threads |-> IF t = "t1" THEN 1 ELSE 2]
  /\ lastCall = [t \in Threads |-> NoCall]
  /\ configLog = [set |-> FALSE, level |-> DEBUG, repeat |-> FALSE]
  /\ unwinding = [t \in Threads |-> FALSE]
  /\ cxx20 \in BOOLEAN
  /\ limit = MaxAppends

(* Two threads run one statement each *)
NextMT ==
  \E t \in Threads :
    \/ \E s \in Texts : ShlText(t, s)
    \/ EndStatement(t)
    \/ DtorEndl(t)

SpecMT == InitMT /\ [][NextMT]_vars

-----------------------------------------------------------------------------
(* What the properties below speak of *)

(* The insertions record i made into std::cerr, in order *)
ChunksOf(i) ==
  LET Mine(c) == c.id = i
  IN SelectSeq(cerr, Mine)

(* The separator an append puts before its value, given the record before it *)
Separator(before) == IF before.no_space THEN "" ELSE " "

PlainKinds == {"text", "int", "nospace"}

PlainText(c) == IF c.k = "int" THEN IntToString(c.v) ELSE c.v

(* The values of calls[j..], each preceded by one space unless the call    *)
(* right before it is a NoSpace request                                    *)
RECURSIVE Joined(_, _)
Joined(calls, j) ==
  IF j > Len(calls) THEN ""
  ELSE (IF calls[j].k = "nospace" THEN ""
        ELSE (IF j > 1 /\ calls[j - 1].k = "nospace" THEN "" ELSE " ")
             \o PlainText(calls[j]))
       \o Joined(calls, j + 1)

OnlyPlain(calls) == \A j \in 1..Len(calls) : calls[j].k \in PlainKinds

(* The header and the plain values appended to record h *)
FullLine(h) == h.header \o Joined(h.calls, 1)

(* Record i wrote exactly its text and then its newline, each once *)
WroteLine(i, text) ==
  LET ch == ChunksOf(i)
  IN /\ Len(ch) = 2
     /\ ch[1].kind = "str" /\ ch[1].data = text
     /\ ch[2].kind = "endl" /\ ch[2].data = "\n"

(* Record i wrote its text and is about to write its newline *)
WroteText(i, text) ==
  LET ch == ChunksOf(i)
  IN /\ Len(ch) = 1
     /\ ch[1].kind = "str" /\ ch[1].data = text

-----------------------------------------------------------------------------
(* C1: for every severity S and every threshold T read when LOG(S) is     *)
(* evaluated, the record is active (it has a buffer, and once destroyed   *)
(* has written its line to the error stream) if and only if S >= T;       *)
(* otherwise it is inert and, whatever is appended to it, no byte of it   *)
(* reaches the error stream.                                              *)
C1_ActiveIffAtOrAboveThreshold ==
  \A i \in 1..Len(hist) :
    LET h == hist[i]
    IN /\ h.active <=> (h.sev >= h.thr)
       /\ h.stage = "live" => (rec[h.thread].has_oss <=> (h.sev >= h.thr))
       /\ h.sev < h.thr => ChunksOf(i) = <<>>
       /\ (h.stage = "done" /\ h.sev >= h.thr) => WroteLine(i, FullLine(h))

(* An inert record, with a value appended to it, has been destroyed and   *)
(* the error stream holds nothing of it                                    *)
C1_Witness ==
  \E i \in 1..Len(hist) :
    /\ hist[i].stage = "done"
    /\ hist[i].sev < hist[i].thr
    /\ Len(hist[i].calls) >= 1
    /\ ChunksOf(i) = <<>>

(* C2: for every sequence of appends of plain values (text, integers) and *)
(* NoSpace requests on an active record, the buffer, and then the flushed *)
(* line, is the header followed by the values' renderings in call order,  *)
(* each value (the first included) preceded by exactly one space, except  *)
(* that a value appended right after a NoSpace request has no separator,  *)
(* and only that value.                                                    *)
C2_LineIsHeaderAndSpaceJoinedValues ==
  \A i \in 1..Len(hist) :
    LET h == hist[i]
    IN (h.active /\ OnlyPlain(h.calls)) =>
         /\ h.stage = "live" => rec[h.thread].oss = FullLine(h)
         /\ h.stage = "flushing" => WroteText(i, FullLine(h))
         /\ h.stage = "done" => WroteLine(i, FullLine(h))

(* A NoSpace request, a text and an integer were appended and flushed:    *)
(* the text has no separator, the integer after it has one                *)
C2_Witness ==
  \E i \in 1..Len(hist) :
    /\ hist[i].stage = "done"
    /\ hist[i].calls = <<[k |-> "nospace", v |-> ""], [k |-> "text", v |-> "x"],
                         [k |-> "int", v |-> 11]>>
    /\ WroteLine(i, hist[i].header \o "x 11")

(* C3: a record is written only at the end of its lifetime: nothing of it *)
(* is in the error stream before its destructor runs; the destructor of   *)
(* an active record, on the normal end of the statement and on an         *)
(* exception unwinding it alike, writes the whole buffer once and then    *)
(* one newline; an inert record is never written.                         *)
C3_FlushedOnceAtEndOfLifetime ==
  \A i \in 1..Len(hist) :
    LET h == hist[i]
    IN /\ h.stage \in {"checked", "live"} => ChunksOf(i) = <<>>
       /\ h.stage = "flushing" =>
            /\ h.active
            /\ WroteText(i, rec[h.thread].oss)
            /\ rec[h.thread].oss = FullLine(h)
       /\ h.stage = "done" =>
            IF h.active THEN WroteLine(i, FullLine(h)) ELSE ChunksOf(i) = <<>>

(* An exception unwinds a statement whose record holds an appended value: *)
(* the destructor has written the whole buffer                            *)
C3_Witness ==
  \E t \in Threads :
    /\ unwinding[t]
    /\ pc[t] = "endl"
    /\ Len(hist[id[t]].calls) >= 1
    /\ WroteText(id[t], hist[id[t]].header \o " x")

C5_ThresholdIsLastConfigured ==
  /\ GetCurrentLevel = (IF configLog.set THEN configLog.level ELSE DEBUG)
  /\ configLog.repeat =>
       \A S \in LogLevel : ~LogCondition(S, GetCurrentLevel) <=> (S >= configLog.level)

(* BasicConfig(WARN) was called twice in a row, and a record created      *)
(* afterwards below WARN is inert                                          *)
C5_Witness ==
  /\ configLog.repeat
  /\ configLog.level = WARN
  /\ \E i \in 1..Len(hist) :
       hist[i].thr = WARN /\ hist[i].sev = INFO /\ ~hist[i].active

-----------------------------------------------------------------------------
(* Renderings as the specification words them, and as amended *)

ContainerKinds == {"vector", "set", "map", "unordered_map"}

TypeName(k) == "std::" \o k

IsMapping(k) == k \in {"map", "unordered_map"}

(* e1,e2,... with entries key:value *)
RECURSIVE TightElements(_, _, _)
TightElements(k, v, j) ==
  IF j > Len(v) THEN ""
  ELSE (IF IsMapping(k) THEN v[j][1] \o ":" \o IntToString(v[j][2])
                        ELSE IntToString(v[j]))
       \o (IF j < Len(v) THEN "," ELSE "")
       \o TightElements(k, v, j + 1)

(* Every element, colon and comma preceded by one space *)
RECURSIVE SpacedElements(_, _, _)
SpacedElements(k, v, j) ==
  IF j > Len(v) THEN ""
  ELSE (IF IsMapping(k) THEN " " \o v[j][1] \o " :" \o " " \o IntToString(v[j][2])
                        ELSE " " \o IntToString(v[j]))
       \o (IF j < Len(v) THEN " ," ELSE "")
       \o SpacedElements(k, v, j + 1)

(* The last append of thread t was of one of kinds, to an active record *)
LastAppend(t, kinds) ==
  /\ pc[t] = "lvalue"
  /\ lastCall[t].k \in kinds
  /\ lastCall[t].before.has_oss

(* What the last append of thread t added must be: the separator and text *)
LastAdded(t, text) ==
  rec[t].oss = lastCall[t].before.oss \o Separator(lastCall[t].before) \o text

(* C6 as stated: a container is rendered <TypeName>{e1,e2,...}, with no   *)
(* space around the commas, inside the braces or around a mapping's colon *)
C6_ContainerTight ==
  \A t \in Threads :
    LastAppend(t, ContainerKinds) =>
      LastAdded(t, TypeName(lastCall[t].k) \o "{"
                   \o TightElements(lastCall[t].k, lastCall[t].v, 1) \o "}")

(* C6 amended: a container is rendered <TypeName>{ e1 , e2 , ... }: the   *)
(* type name directly followed by '{', then every element, every comma    *)
(* between two elements and the closing '}' each preceded by exactly one  *)
(* space, in iteration order with no trailing comma; a mapping entry is   *)
(* key : value, the colon and the value each preceded by one space.       *)
C6_ContainerSpaced ==
  \A t \in Threads :
    LastAppend(t, ContainerKinds) =>
      LastAdded(t, TypeName(lastCall[t].k) \o "{"
                   \o SpacedElements(lastCall[t].k, lastCall[t].v, 1) \o " }")

(* A text and then the map key1->1, key2->2 were appended and flushed *)
C6_Witness ==
  \E i \in 1..Len(hist) :
    /\ hist[i].stage = "done"
    /\ Len(hist[i].calls) = 2
    /\ hist[i].calls[1].k = "text"
    /\ hist[i].calls[2].k = "map"
    /\ WroteLine(i, hist[i].header \o " x std::map{ key1 : 1 , key2 : 2 }")

(* C7: a boolean appended to an active record is rendered true or false,  *)
(* at every position of the chain, the first one after LOG(level)         *)
(* included.                                                               *)
C7_BoolAsWord ==
  \A t \in Threads :
    LastAppend(t, {"bool"}) =>
      LastAdded(t, IF lastCall[t].v THEN "true" ELSE "false")

(* The unit word of each granularity *)
GranularityWord ==
  [u \in Units |->
     CASE u = "s" -> "seconds" [] u = "ms" -> "milliseconds"
       [] u = "us" -> "microseconds" [] u = "ns" -> "nanoseconds"
       [] u = "h" -> "hours" [] u = "min" -> "minutes"]

OptionalValue(o) == IF o.k = "int" THEN IntToString(o.v) ELSE o.v

(* C9 as stated: std::optional{<value>} with nothing between the braces   *)
(* and the value, std::optional{ nullopt } when empty                     *)
C9_OptionalTight ==
  \A t \in Threads :
    LastAppend(t, {"optional"}) =>
      LastAdded(t, IF lastCall[t].v.has
                     THEN "std::optional{" \o OptionalValue(lastCall[t].v) \o "}"
                     ELSE "std::optional{ nullopt }")

(* C9 amended: an optional holding a value is rendered                    *)
(* std::optional{ <value> }, one space after '{' and one before '}', the  *)
(* same spacing as std::optional{ nullopt } for an empty one.             *)
C9_OptionalSpaced ==
  \A t \in Threads :
    LastAppend(t, {"optional"}) =>
      LastAdded(t, IF lastCall[t].v.has
                     THEN "std::optional{ " \o OptionalValue(lastCall[t].v) \o " }"
                     ELSE "std::optional{ nullopt }")

(* A text and then an optional holding 42 were appended and flushed *)
C9_Witness ==
  \E i \in 1..Len(hist) :
    /\ hist[i].stage = "done"
    /\ Len(hist[i].calls) = 2
    /\ hist[i].calls[2] = [k |-> "optional", v |-> [has |-> TRUE, k |-> "int", v |-> 42]]
    /\ WroteLine(i, hist[i].header \o " x std::optional{ 42 }")

(* C10: under every interleaving of the threads' destructors, a record's  *)
(* text in the error stream is directly followed by its own newline.      *)
C10_TextFollowedByOwnNewline ==
  \A j \in 1..Len(cerr) :
    (cerr[j].kind = "str" /\ j < Len(cerr)) =>
      (cerr[j + 1].kind = "endl" /\ cerr[j + 1].id = cerr[j].id)

=============================================================================
